---- MODULE Spec2Model ----
(***************************************************************************)
(* A model of neuralnets/layers.py: one Layer object (ConvLayer,           *)
(* ReLuLayer, BiasLayer or FCLayer) and the calls a driver makes on it:    *)
(* forward, backward and update_parameters.                                *)
(*                                                                         *)
(* The module is Python 2 code (xrange), so it runs on CPython 2 with a    *)
(* numpy of that line.  Three facts of that platform are modelled as the   *)
(* interpreter computes them:                                              *)
(*   - None != []  is True, and  None > 0  is False;                       *)
(*   - ndarray != []  is an elementwise comparison with an array of shape  *)
(*     (0,): it broadcasts exactly when the array's last axis has length   *)
(*     1, the result then is an empty array, and an empty array is false;  *)
(*     when it does not broadcast the comparison answers True;             *)
(*   - the arrays are float arrays; a float is modelled as the exact       *)
(*     rational <<numerator, denominator>> in lowest terms.                *)
(* An array is a record [tag, shape, data], data in row-major order.       *)
(***************************************************************************)
EXTENDS Integers, Sequences, FiniteSets, TLC

(***************************************************************************)
(* Bounds of the model.                                                    *)
(***************************************************************************)
MaxBatch   == 2   \* batches hold 1..MaxBatch samples
MaxChan    == 1   \* input channels
MaxH       == 1   \* image height
MaxW       == 2   \* image width
MaxUnits   == 2   \* n_filters of a ConvLayer, n_neurons of an FCLayer
MaxCalls   == 3   \* calls in one run

(***************************************************************************)
(* Floats as exact rationals.                                              *)
(***************************************************************************)
RECURSIVE Gcd(_, _)
Gcd(a, b) == IF b = 0 THEN a ELSE Gcd(b, a % b)

Abs(a) == IF a < 0 THEN -a ELSE a

Rat(n, d) ==
    LET g == Gcd(Abs(n), Abs(d))
        s == IF d < 0 THEN -1 ELSE 1
    IN  <<(s * n) \div g, (s * d) \div g>>

Num(n) == <<n, 1>>

RAdd(x, y) == Rat(x[1] * y[2] + y[1] * x[2], x[2] * y[2])
RSub(x, y) == Rat(x[1] * y[2] - y[1] * x[2], x[2] * y[2])
RMul(x, y) == Rat(x[1] * y[1], x[2] * y[2])
RDiv(x, y) == Rat(x[1] * y[2], x[2] * y[1])
RPos(x)    == x[1] > 0
RMax0(x)   == IF x[1] > 0 THEN x ELSE Num(0)

RECURSIVE RSum(_)
RSum(s) == IF s = <<>> THEN Num(0) ELSE RAdd(Head(s), RSum(Tail(s)))

(***************************************************************************)
(* Values: arrays, None, a missing attribute, and the exceptions.          *)
(***************************************************************************)
Val(t, sh, d) == [tag |-> t, shape |-> sh, data |-> d]

None           == Val("None", <<>>, <<>>)
NoAttribute    == Val("NoAttribute", <<>>, <<>>)
AssertionError == Val("AssertionError", <<>>, <<>>)
AttributeError == Val("AttributeError", <<>>, <<>>)
IndexError     == Val("IndexError", <<>>, <<>>)
ValueError     == Val("ValueError", <<>>, <<>>)
TypeError      == Val("TypeError", <<>>, <<>>)

Errors == {AssertionError, AttributeError, IndexError, ValueError, TypeError}

IsArray(v) == v.tag = "ndarray"

RECURSIVE Prod(_)
Prod(sh) == IF sh = <<>> THEN 1 ELSE Head(sh) * Prod(Tail(sh))

Array(sh, d) == Val("ndarray", sh, d)

Zeros(sh) == Array(sh, [i \in 1..Prod(sh) |-> Num(0)])

Len0(a) == a.shape[1]

(***************************************************************************)
(* Row-major indexing and numpy broadcasting.                              *)
(***************************************************************************)
RECURSIVE Ravel(_, _)
Ravel(idx, sh) ==
    IF sh = <<>> THEN 0
    ELSE Head(idx) * Prod(Tail(sh)) + Ravel(Tail(idx), Tail(sh))

RECURSIVE Unravel(_, _)
Unravel(k, sh) ==
    IF sh = <<>> THEN <<>>
    ELSE <<k \div Prod(Tail(sh))>> \o Unravel(k % Prod(Tail(sh)), Tail(sh))

At(a, idx) == a.data[Ravel(idx, a.shape) + 1]

Pad(sh, n) == [i \in 1..(n - Len(sh)) |-> 1] \o sh

MaxOf(x, y) == IF x > y THEN x ELSE y

Broadcastable(s1, s2) ==
    LET n  == MaxOf(Len(s1), Len(s2))
        p1 == Pad(s1, n)
        p2 == Pad(s2, n)
    IN  \A i \in 1..n : p1[i] = p2[i] \/ p1[i] = 1 \/ p2[i] = 1

BroadcastShape(s1, s2) ==
    LET n  == MaxOf(Len(s1), Len(s2))
        p1 == Pad(s1, n)
        p2 == Pad(s2, n)
    IN  [i \in 1..n |-> IF p1[i] = 1 THEN p2[i] ELSE p1[i]]

\* a's element that position k (0-based) of an array of shape sh reads
BAt(a, k, sh) ==
    LET idx == Unravel(k, sh)
        pa  == Pad(a.shape, Len(sh))
        cl  == [i \in 1..Len(sh) |-> IF pa[i] = 1 THEN 0 ELSE idx[i]]
    IN  a.data[Ravel(cl, pa) + 1]

Add(a, b) ==
    LET sh == BroadcastShape(a.shape, b.shape)
    IN  Array(sh, [k \in 1..Prod(sh) |-> RAdd(BAt(a, k - 1, sh), BAt(b, k - 1, sh))])

Sub(a, b) ==
    LET sh == BroadcastShape(a.shape, b.shape)
    IN  Array(sh, [k \in 1..Prod(sh) |-> RSub(BAt(a, k - 1, sh), BAt(b, k - 1, sh))])

Mul(a, b) ==
    LET sh == BroadcastShape(a.shape, b.shape)
    IN  Array(sh, [k \in 1..Prod(sh) |-> RMul(BAt(a, k - 1, sh), BAt(b, k - 1, sh))])

\* whether  a -= b  (a += b) finds b broadcastable to a's shape
FitsInPlace(a, b) ==
    /\ Len(b.shape) <= Len(a.shape)
    /\ Broadcastable(a.shape, b.shape)
    /\ BroadcastShape(a.shape, b.shape) = a.shape

Scale(a, r) == Array(a.shape, [k \in 1..Len(a.data) |-> RMul(a.data[k], r)])

Unscale(a, r) == Array(a.shape, [k \in 1..Len(a.data) |-> RDiv(a.data[k], r)])

\* np.mean(a, axis=0)
Mean0(a) ==
    LET sh == Tail(a.shape)
        n  == Prod(sh)
    IN  Array(sh, [k \in 1..n |->
            RDiv(RSum([b \in 1..Len0(a) |-> a.data[(b - 1) * n + k]]),
                 Num(Len0(a)))])

(***************************************************************************)
(* Indexing a[n], transposition, matrix product.                           *)
(***************************************************************************)
\* a[n], n 0-based
Item(a, n) ==
    LET sh == Tail(a.shape)
        m  == Prod(sh)
    IN  Array(sh, [k \in 1..m |-> a.data[n * m + k]])

Item2(a, n, c) == Item(Item(a, n), c)

Reshape(a, sh) == Array(sh, a.data)

\* a.T of a 2-D array
Transpose(a) ==
    LET r == a.shape[1]
        c == a.shape[2]
    IN  Array(<<c, r>>, [k \in 1..(r * c) |->
            a.data[((k - 1) % r) * c + ((k - 1) \div r) + 1]])

\* np.dot of two 2-D arrays whose inner lengths agree
Dot(a, b) ==
    LET r == a.shape[1]
        m == a.shape[2]
        c == b.shape[2]
    IN  Array(<<r, c>>, [k \in 1..(r * c) |->
            RSum([t \in 1..m |->
                RMul(a.data[((k - 1) \div c) * m + t],
                     b.data[(t - 1) * c + ((k - 1) % c) + 1])])])

(***************************************************************************)
(* scipy.signal.convolve2d / correlate2d with boundary='fill', fillvalue=0 *)
(* on 2-D arrays, as the library's loop computes them: flip is TRUE for    *)
(* convolve2d and FALSE for correlate2d.  Kernels of odd side only.        *)
(***************************************************************************)
OutLen(mode, n1, n2) ==
    CASE mode = "full"  -> n1 + n2 - 1
      [] mode = "same"  -> n1
      [] mode = "valid" -> n1 - n2 + 1

\* the row (column) of in1 that output row m starts from
NewIdx(mode, flip, m, n2) ==
    CASE mode = "full"  -> IF flip THEN m ELSE m - n2 + 1
      [] mode = "same"  -> IF flip THEN m + ((n2 - 1) \div 2) ELSE m - ((n2 - 1) \div 2)
      [] mode = "valid" -> IF flip THEN m + n2 - 1 ELSE m

Filter2dAt(in1, in2, mode, flip, m, n) ==
    LET h  == in2.shape[1]
        w  == in2.shape[2]
        nm == NewIdx(mode, flip, m, h)
        nn == NewIdx(mode, flip, n, w)
    IN  RSum([t \in 1..(h * w) |->
            LET j  == (t - 1) \div w
                k  == (t - 1) % w
                i0 == IF flip THEN nm - j ELSE nm + j
                i1 == IF flip THEN nn - k ELSE nn + k
            IN  IF i0 < 0 \/ i0 >= in1.shape[1] \/ i1 < 0 \/ i1 >= in1.shape[2]
                THEN Num(0)
                ELSE RMul(At(in1, <<i0, i1>>), in2.data[t])])

Filter2d(in1, in2, mode, flip) ==
    LET oh == OutLen(mode, in1.shape[1], in2.shape[1])
        ow == OutLen(mode, in1.shape[2], in2.shape[2])
    IN  Array(<<oh, ow>>, [t \in 1..(oh * ow) |->
            Filter2dAt(in1, in2, mode, flip, (t - 1) \div ow, (t - 1) % ow)])

convolve2d(in1, in2, mode) == Filter2d(in1, in2, mode, TRUE)

correlate2d(in1, in2, mode) == Filter2d(in1, in2, mode, FALSE)

\* the sum of the arrays of a sequence, starting from zeros(sh) (out += term)
RECURSIVE Accumulate(_, _)
Accumulate(sh, terms) ==
    IF terms = <<>> THEN Zeros(sh)
    ELSE Add(Accumulate(sh, Tail(terms)), Head(terms))

(***************************************************************************)
(* The layer: its construction-time attributes and its mutable state.      *)
(***************************************************************************)
VARIABLES
    kind,          \* the class of the object
    input_shape,   \* Layer.input_shape
    output_shape,  \* Layer.output_shape
    n_filters,     \* ConvLayer.n_filters (0: the object has no such attribute)
    field,         \* ConvLayer.field     (0: the object has no such attribute)
    weights,       \* ConvLayer.weights, FCLayer.weights
    biases,        \* BiasLayer.biases
    inputs,        \* ConvLayer.inputs, FCLayer.inputs
    acts,          \* Layer.acts
    gradient,      \* Layer.gradient
    op,            \* the most recent call: its name and arguments
    ret,           \* what that call returned or raised
    ncalls,        \* calls so far
    lastin,        \* inputs of the most recent forward call that returned
    keptin         \* inputs of the most recent forward call that returned with keepacts

config == <<kind, input_shape, output_shape, n_filters, field>>
state  == <<weights, biases, inputs, acts, gradient>>
ghost  == <<lastin, keptin>>
vars   == <<config, state, op, ret, ncalls, ghost>>

\* the object's mutable attributes as one value
Self == [weights |-> weights, biases |-> biases, inputs |-> inputs,
         acts |-> acts, gradient |-> gradient]

\* the outcome of a method call: the object afterwards and the value
\* returned (None for a procedure) or the exception raised
Outcome(self, r) == [self |-> self, ret |-> r]

Raised(o) == o.ret \in Errors

(***************************************************************************)
(* ConvLayer                                                               *)
(***************************************************************************)
ConvForward(self, x, keepacts) ==
    LET N == x.shape[1]
        C == x.shape[2]
        K == n_filters
        H == output_shape[3]
        W == output_shape[4]
        plane == [q \in 0..(N * K - 1) |->
                    Accumulate(<<H, W>>, [c \in 1..C |->
                        convolve2d(Item2(x, q \div K, c - 1),
                                   Item2(self.weights, q % K, c - 1), "same")])]
        outputs == Array(<<N, K, H, W>>, [t \in 1..(N * K * H * W) |->
                    plane[(t - 1) \div (H * W)].data[((t - 1) % (H * W)) + 1]])
    IN  Outcome([self EXCEPT !.inputs = x,
                             !.acts = IF keepacts THEN outputs ELSE @],
                outputs)

\* how many images n the loop has added into self.gradient[k][c] when it
\* ends, normally or at the first gradient[n][k] that is out of range
ConvImagesDone(k, c, B, K, g) ==
    IF g.shape[1] < B THEN (IF k = 0 /\ c = 0 THEN g.shape[1] ELSE 0)
    ELSE IF k < g.shape[2] THEN B ELSE 0

ConvWeightGradient(self, g) ==
    LET B == self.inputs.shape[1]
        C == self.inputs.shape[2]
        K == n_filters
        F == self.weights.shape[3] * self.weights.shape[4]
        plane == [q \in 0..(K * C - 1) |->
                    Accumulate(<<self.weights.shape[3], self.weights.shape[4]>>,
                        [n \in 1..ConvImagesDone(q \div C, q % C, B, K, g) |->
                            convolve2d(Item2(self.inputs, n - 1, q % C),
                                       Item2(g, n - 1, q \div C), "valid")])]
    IN  Array(self.weights.shape, [t \in 1..(K * C * F) |->
            plane[(t - 1) \div F].data[((t - 1) % F) + 1]])

ConvInputGradient(self, g) ==
    LET B == self.inputs.shape[1]
        C == self.inputs.shape[2]
        K == n_filters
        H == self.inputs.shape[3]
        W == self.inputs.shape[4]
        plane == [q \in 0..(B * C - 1) |->
                    Accumulate(<<H, W>>, [k \in 1..K |->
                        correlate2d(Item2(g, q \div C, k - 1),
                                    Item2(self.weights, k - 1, q % C), "same")])]
    IN  Array(self.inputs.shape, [t \in 1..(B * C * H * W) |->
            plane[(t - 1) \div (H * W)].data[((t - 1) % (H * W)) + 1]])

\* ConvBackward with the weight gradient assigned to self.weights
ConvBackward_IntoWeights(self, g, keepgrad) ==
    IF ~IsArray(self.inputs)
    THEN Outcome([self EXCEPT !.weights = Zeros(self.weights.shape)], AttributeError)
    ELSE IF g.shape[1] < self.inputs.shape[1] \/ g.shape[2] < n_filters
    THEN Outcome([self EXCEPT !.weights = ConvWeightGradient(self, g)], IndexError)
    ELSE Outcome([self EXCEPT !.weights = ConvWeightGradient(self, g)],
                 ConvInputGradient(self, g))

\* g is 4-D and its planes have the height and width of the inputs
ConvBackward(self, g, keepgrad) ==
    IF ~IsArray(self.inputs)
    THEN Outcome([self EXCEPT !.gradient = Zeros(self.weights.shape)], AttributeError)
    ELSE IF g.shape[1] < self.inputs.shape[1] \/ g.shape[2] < n_filters
    THEN Outcome([self EXCEPT !.gradient = ConvWeightGradient(self, g)], IndexError)
    ELSE Outcome([self EXCEPT !.gradient = ConvWeightGradient(self, g)],
                 ConvInputGradient(self, g))

ConvUpdateParameters(self, learn_rate, regu_strength) ==
    LET decayed == Scale(self.weights, RSub(Num(1), regu_strength))
        step    == Unscale(Scale(self.gradient, learn_rate), Num(Len0(self.gradient)))
    IN  IF ~IsArray(self.gradient)
        THEN Outcome([self EXCEPT !.weights = decayed], TypeError)
        ELSE IF ~FitsInPlace(decayed, step)
        THEN Outcome([self EXCEPT !.weights = decayed], ValueError)
        ELSE Outcome([self EXCEPT !.weights = Sub(decayed, step)], None)

(***************************************************************************)
(* ReLuLayer                                                               *)
(***************************************************************************)
Maximum0(x) == Array(x.shape, [k \in 1..Len(x.data) |-> RMax0(x.data[k])])

\* a > 0 as an array of 1 and 0
Positive(a) ==
    Array(a.shape, [k \in 1..Len(a.data) |-> IF RPos(a.data[k]) THEN Num(1) ELSE Num(0)])

ReLuForward(self, x, keepacts) ==
    LET a == Maximum0(x)
    IN  Outcome([self EXCEPT !.acts = IF keepacts THEN a ELSE @], a)

\* None > 0 is False, and gradient * False is an array of zeros
ReLuBackward(self, g, keepgrad) ==
    LET mask == IF IsArray(self.acts) THEN Positive(self.acts)
                ELSE Array(<<>>, <<Num(0)>>)
        grad == Mul(g, mask)
    IN  IF ~Broadcastable(g.shape, mask.shape)
        THEN Outcome(self, ValueError)
        ELSE Outcome([self EXCEPT !.gradient = IF keepgrad THEN grad ELSE @], grad)

(***************************************************************************)
(* BiasLayer                                                               *)
(***************************************************************************)
BiasForward(self, x, keepacts) ==
    LET a == Add(x, self.biases)
    IN  Outcome([self EXCEPT !.acts = IF keepacts THEN a ELSE @], a)

BiasBackward(self, g, keepgrad) ==
    Outcome([self EXCEPT !.gradient = IF keepgrad THEN g ELSE @], g)

BiasUpdateParameters(self, learn_rate, regu_strength) ==
    LET step == Scale(Mean0(self.gradient), learn_rate)
    IN  IF ~IsArray(self.gradient)
        THEN Outcome(self, ValueError)
        ELSE IF ~FitsInPlace(self.biases, step)
        THEN Outcome(self, ValueError)
        ELSE Outcome([self EXCEPT !.biases = Sub(@, step)], None)

(***************************************************************************)
(* FCLayer                                                                 *)
(***************************************************************************)
FCForward(self, x, keepacts) ==
    LET flat == Reshape(x, <<x.shape[1], Prod(Tail(input_shape))>>)
        a    == Dot(flat, self.weights)
    IN  Outcome([self EXCEPT !.inputs = flat,
                             !.acts = IF keepacts THEN a ELSE @], a)

\* FCBackward with the gradient stored whatever keepgrad is
FCBackward_StoresAlways(self, g, keepgrad) ==
    LET grad  == Dot(Transpose(self.inputs), g)
        after == [self EXCEPT !.gradient = grad]
    IN  IF ~IsArray(self.inputs) THEN Outcome(self, AttributeError)
        ELSE IF self.inputs.shape[1] # g.shape[1] THEN Outcome(self, ValueError)
        ELSE IF g.shape[2] # self.weights.shape[2] THEN Outcome(after, ValueError)
        ELSE Outcome(after, Reshape(Dot(g, Transpose(self.weights)),
                                    <<g.shape[1]>> \o Tail(input_shape)))

\* g is 2-D
FCBackward(self, g, keepgrad) ==
    LET grad  == Dot(Transpose(self.inputs), g)
        after == [self EXCEPT !.gradient = IF keepgrad THEN grad ELSE @]
    IN  IF ~IsArray(self.inputs) THEN Outcome(self, AttributeError)
        ELSE IF self.inputs.shape[1] # g.shape[1] THEN Outcome(self, ValueError)
        ELSE IF g.shape[2] # self.weights.shape[2] THEN Outcome(after, ValueError)
        ELSE Outcome(after, Reshape(Dot(g, Transpose(self.weights)),
                                    <<g.shape[1]>> \o Tail(input_shape)))

FCUpdateParameters(self, learn_rate, regu_strength) ==
    LET decayed == Scale(self.weights, RSub(Num(1), regu_strength))
        step    == Unscale(Scale(self.gradient, learn_rate), Num(Len0(self.gradient)))
    IN  IF ~IsArray(self.gradient)
        THEN Outcome([self EXCEPT !.weights = decayed], TypeError)
        ELSE IF ~FitsInPlace(decayed, step)
        THEN Outcome([self EXCEPT !.weights = decayed], ValueError)
        ELSE Outcome([self EXCEPT !.weights = Sub(decayed, step)], None)

(***************************************************************************)
(* Layer: the public methods                                               *)
(***************************************************************************)
\* inputs.shape[1:] == self.input_shape[1:]
ShapeOk(x) == Tail(x.shape) = Tail(input_shape)

\* the truth of  self.acts != []
ActsNotEmptyList(a) == IF IsArray(a) THEN ~Broadcastable(a.shape, <<0>>) ELSE TRUE

\* LayerForward with the caches cleared before the shape is checked
LayerForward_ClearsCaches(self, x, keepacts) ==
    IF ~ShapeOk(x)
    THEN Outcome([self EXCEPT !.acts = None, !.gradient = None], AssertionError)
    ELSE CASE kind = "ConvLayer" -> ConvForward(self, x, keepacts)
           [] kind = "ReLuLayer" -> ReLuForward(self, x, keepacts)
           [] kind = "BiasLayer" -> BiasForward(self, x, keepacts)
           [] kind = "FCLayer"   -> FCForward(self, x, keepacts)

LayerForward(self, x, keepacts) ==
    IF ~ShapeOk(x) THEN Outcome(self, AssertionError)
    ELSE CASE kind = "ConvLayer" -> ConvForward(self, x, keepacts)
           [] kind = "ReLuLayer" -> ReLuForward(self, x, keepacts)
           [] kind = "BiasLayer" -> BiasForward(self, x, keepacts)
           [] kind = "FCLayer"   -> FCForward(self, x, keepacts)

LayerBackward(self, g, keepgrad) ==
    IF ~ActsNotEmptyList(self.acts) THEN Outcome(self, AssertionError)
    ELSE CASE kind = "ConvLayer" -> ConvBackward(self, g, keepgrad)
           [] kind = "ReLuLayer" -> ReLuBackward(self, g, keepgrad)
           [] kind = "BiasLayer" -> BiasBackward(self, g, keepgrad)
           [] kind = "FCLayer"   -> FCBackward(self, g, keepgrad)

LayerUpdateParameters(self, learn_rate, regu_strength) ==
    CASE kind = "ConvLayer" -> ConvUpdateParameters(self, learn_rate, regu_strength)
      [] kind = "ReLuLayer" -> Outcome(self, None)
      [] kind = "BiasLayer" -> BiasUpdateParameters(self, learn_rate, regu_strength)
      [] kind = "FCLayer"   -> FCUpdateParameters(self, learn_rate, regu_strength)

(***************************************************************************)
(* The values the driver passes.                                           *)
(***************************************************************************)
Kinds == {"ConvLayer", "ReLuLayer", "BiasLayer", "FCLayer"}

\* (channels, height, width) of one sample
PerSampleShapes == {<<c, h, w>> : c \in 1..MaxChan, h \in 1..MaxH, w \in 1..MaxW}

\* sides of a ConvLayer's filters: the default and the smallest
Fields == {1, 3}

\* two fillings of an array: 1, 0, -1, -2, ...  and  -1, 2, -3, 4, ...
Patterns == {1, 2}

Pattern(p, i) == IF p = 1 THEN 2 - i ELSE IF i % 2 = 0 THEN i ELSE -i

Fill(sh, p) == Array(sh, [i \in 1..Prod(sh) |-> Num(Pattern(p, i))])

Batches == {Fill(<<b>> \o ps, p) : b \in 1..MaxBatch, ps \in PerSampleShapes, p \in Patterns}

\* the shapes of the gradients passed to backward: of the layer's output
\* for any batch size, and with another number of filters or neurons, or
\* of another sample shape
GradientShapes ==
    CASE kind = "ConvLayer" ->
            {<<b, n_filters, input_shape[3], input_shape[4]>> : b \in 1..MaxBatch}
      [] kind = "FCLayer" ->
            {<<b, m>> : b \in 1..MaxBatch, m \in 1..MaxUnits}
      [] OTHER ->
            {<<b>> \o ps : b \in 1..MaxBatch, ps \in PerSampleShapes}

Gradients == {Fill(sh, p) : sh \in GradientShapes, p \in Patterns}

LearnRates == {Num(1), Rat(1, 10)}

ReguStrengths == {Num(0), Rat(1, 2)}

(***************************************************************************)
(* Construction.  np.random.randn scaled by a positive factor is any       *)
(* array of reals; the model starts from the two fillings.                 *)
(***************************************************************************)
LayerInit(ish) ==
    /\ input_shape = ish
    /\ acts = None
    /\ gradient = None

ConvInit(ish, n, f, p) ==
    /\ LayerInit(ish)
    /\ kind = "ConvLayer"
    /\ n_filters = n
    /\ field = f
    /\ weights = Fill(<<n, ish[2], f, f>>, p)
    /\ output_shape = <<1, n, ish[3], ish[4]>>
    /\ biases = NoAttribute
    /\ inputs = NoAttribute

ReLuInit(ish) ==
    /\ LayerInit(ish)
    /\ kind = "ReLuLayer"
    /\ output_shape = ish
    /\ n_filters = 0
    /\ field = 0
    /\ weights = NoAttribute
    /\ biases = NoAttribute
    /\ inputs = NoAttribute

BiasInit(ish) ==
    /\ LayerInit(ish)
    /\ kind = "BiasLayer"
    /\ output_shape = ish
    /\ biases = Zeros(Tail(ish))
    /\ n_filters = 0
    /\ field = 0
    /\ weights = NoAttribute
    /\ inputs = NoAttribute

FCInit(ish, n, p) ==
    /\ LayerInit(ish)
    /\ kind = "FCLayer"
    /\ weights = Fill(<<Prod(Tail(ish)), n>>, p)
    /\ output_shape = <<ish, n>>
    /\ n_filters = 0
    /\ field = 0
    /\ biases = NoAttribute
    /\ inputs = NoAttribute

NoCall == [name |-> "none", arg |-> None, flag |-> FALSE,
           learn_rate |-> Num(0), regu_strength |-> Num(0)]

Init ==
    /\ \E ps \in PerSampleShapes, n \in 1..MaxUnits, f \in Fields, p \in Patterns :
          \/ ConvInit(<<1>> \o ps, n, f, p)
          \/ ReLuInit(<<1>> \o ps)
          \/ BiasInit(<<1>> \o ps)
          \/ FCInit(<<1>> \o ps, n, p)
    /\ op = NoCall
    /\ ret = None
    /\ ncalls = 0
    /\ lastin = None
    /\ keptin = None

(***************************************************************************)
(* The calls.                                                              *)
(***************************************************************************)
\* the object takes the attributes the call leaves
Becomes(o) ==
    /\ weights'  = o.self.weights
    /\ biases'   = o.self.biases
    /\ inputs'   = o.self.inputs
    /\ acts'     = o.self.acts
    /\ gradient' = o.self.gradient
    /\ ret'      = o.ret

Forward(x, keepacts) ==
    LET o == LayerForward(Self, x, keepacts)
    IN  /\ ncalls < MaxCalls
        /\ Becomes(o)
        /\ op' = [name |-> "forward", arg |-> x, flag |-> keepacts,
                  learn_rate |-> Num(0), regu_strength |-> Num(0)]
        /\ lastin' = IF Raised(o) THEN lastin ELSE x
        /\ keptin' = IF Raised(o) \/ ~keepacts THEN keptin ELSE x
        /\ ncalls' = ncalls + 1
        /\ UNCHANGED config

Backward(g, keepgrad) ==
    LET o == LayerBackward(Self, g, keepgrad)
    IN  /\ ncalls < MaxCalls
        /\ Becomes(o)
        /\ op' = [name |-> "backward", arg |-> g, flag |-> keepgrad,
                  learn_rate |-> Num(0), regu_strength |-> Num(0)]
        /\ ncalls' = ncalls + 1
        /\ UNCHANGED <<config, lastin, keptin>>

UpdateParameters(learn_rate, regu_strength) ==
    LET o == LayerUpdateParameters(Self, learn_rate, regu_strength)
    IN  /\ ncalls < MaxCalls
        /\ Becomes(o)
        /\ op' = [name |-> "update_parameters", arg |-> None, flag |-> FALSE,
                  learn_rate |-> learn_rate, regu_strength |-> regu_strength]
        /\ ncalls' = ncalls + 1
        /\ UNCHANGED <<config, ghost>>

Next ==
    \/ \E x \in Batches, keepacts \in BOOLEAN : Forward(x, keepacts)
    \/ \E g \in Gradients, keepgrad \in BOOLEAN : Backward(g, keepgrad)
    \/ \E learn_rate \in LearnRates, regu_strength \in ReguStrengths :
          UpdateParameters(learn_rate, regu_strength)

Spec == Init /\ [][Next]_vars

(***************************************************************************)
(* Properties.                                                             *)
(***************************************************************************)
\* the step is a call of the method
Called(name) == ncalls' = ncalls + 1 /\ op'.name = name

\* the shape of the layer's output for the batch x
OutputShapeFor(x) == <<Len0(x)>> \o Tail(output_shape)

\* g where x > 0, and 0 elsewhere (g and x of one shape)
MaskedBy(g, x) ==
    Array(g.shape, [k \in 1..Len(g.data) |->
        IF RPos(x.data[k]) THEN g.data[k] ELSE Num(0)])

\* C1: backward on a ReLuLayer in which no forward call has stored
\* activations raises the assertion's error instead of returning a gradient.
C1_BackwardBeforeForwardRaises ==
    (kind = "ReLuLayer" /\ op.name = "backward" /\ acts = None)
        => ret = AssertionError

C2_Step ==
    (Called("forward") /\ ~ShapeOk(op'.arg))
        => (ret' = AssertionError /\ state' = state)

\* C2: a forward call whose batch has another per-sample shape than
\* input_shape raises the assertion's error, returns no output and leaves
\* the parameters, the cached inputs, the activations and the gradient as
\* they were.
C2_ShapeMismatchFailsFast == [][C2_Step]_vars

\* C2 happens: a batch of the wrong shape is refused by a layer that holds
\* activations and a gradient from earlier calls.
C2_Witness ==
    /\ op.name = "forward"
    /\ ~ShapeOk(op.arg)
    /\ ret = AssertionError
    /\ IsArray(acts)
    /\ IsArray(gradient)

C3_Step ==
    (/\ Called("update_parameters")
     /\ kind \in {"ConvLayer", "FCLayer"}
     /\ op.name = "backward" /\ op.flag /\ ~(ret \in Errors)
     /\ Len0(op.arg) = Len0(inputs))
        => weights' = Sub(Scale(weights, RSub(Num(1), op'.regu_strength)),
                          Scale(Unscale(gradient, Num(Len0(inputs))),
                                op'.learn_rate))

\* C3: update_parameters right after a backward pass over B samples sets
\* the weights of a ConvLayer or FCLayer to
\* weights * (1 - regu_strength) - learn_rate * (gradient / B).
C3_UpdateDividesByBatchSize == [][C3_Step]_vars

\* loss = sum(G * forward(X)) with the weights w, X the last batch and G the
\* gradient passed to backward
C4_Loss(w) ==
    RSum(Mul(op.arg, LayerForward([Self EXCEPT !.weights = w], lastin, FALSE).ret).data)

\* w with 1 added to its i-th entry
C4_Bump(w, i) ==
    Array(w.shape, [k \in 1..Len(w.data) |->
        IF k = i THEN RAdd(w.data[k], Num(1)) ELSE w.data[k]])

\* C4: after forward(X) and backward(G), G of the output's shape, the
\* gradient stored by a ConvLayer or FCLayer has the shape of the weights,
\* and each entry is the finite difference of the loss in that weight
\* (eps = 1; the loss is linear in the weights).
C4_GradientCheck ==
    (/\ kind \in {"ConvLayer", "FCLayer"}
     /\ op.name = "backward" /\ op.flag /\ ~(ret \in Errors)
     /\ IsArray(lastin)
     /\ op.arg.shape = OutputShapeFor(lastin))
        => /\ gradient.shape = weights.shape
           /\ \A i \in 1..Len(weights.data) :
                 gradient.data[i] = RSub(C4_Loss(C4_Bump(weights, i)), C4_Loss(weights))

C5_Step ==
    ((Called("forward") \/ Called("backward")) /\ ret' \in Errors)
        => state' = state

\* C5: a forward or backward call that raises leaves the parameters, the
\* cached inputs, the activations and the gradient as they were.
C5_FailedCallChangesNothing == [][C5_Step]_vars

\* C6 as stated: FCLayer.backward stores inputs.T . gradient in the gradient
\* cache whatever keepgrad is.
C6_FCStoresGradientAlways ==
    (kind = "FCLayer" /\ op.name = "backward" /\ ~(ret \in Errors))
        => gradient = Dot(Transpose(inputs), op.arg)

C6_Step ==
    (kind = "FCLayer" /\ ncalls' = ncalls + 1)
        => /\ (op'.name = "backward" /\ ~(ret' \in Errors))
                 => gradient' = IF op'.flag
                                THEN Dot(Transpose(inputs), op'.arg)
                                ELSE gradient
           /\ (op'.name \in {"forward", "update_parameters"})
                 => gradient' = gradient

\* C6 amended: an FCLayer.backward call that returns stores
\* inputs.T . gradient in the gradient cache when keepgrad is true and
\* leaves the cache as it was when keepgrad is false; forward and
\* update_parameters leave the cache as it was.
C6_FCStoresGradientWhenKept == [][C6_Step]_vars

\* C6 happens: backward with keepgrad false has returned and the cache
\* still holds the gradient of an earlier backward call, not this one's.
C6_Witness ==
    /\ kind = "FCLayer"
    /\ op.name = "backward" /\ ~op.flag /\ ~(ret \in Errors)
    /\ IsArray(gradient)
    /\ gradient # Dot(Transpose(inputs), op.arg)

\* C7: forward on a batch of the right per-sample shape returns an array of
\* the batch's size and output_shape's other axes, and backward on a
\* gradient of that shape returns an array of the shape of the last input.
C7_ShapeLaw ==
    /\ (op.name = "forward" /\ ShapeOk(op.arg))
          => (IsArray(ret) /\ ret.shape = OutputShapeFor(op.arg))
    /\ (op.name = "backward" /\ IsArray(lastin) /\ op.arg.shape = OutputShapeFor(lastin))
          => (IsArray(ret) /\ ret.shape = lastin.shape)

\* C8: a ReLuLayer's forward returns max(0, x), which applied again gives
\* the same array; after forward(X, keepacts = true), backward(G) returns G
\* where X > 0 and 0 where X <= 0.
C8_ReLuForwardBackward ==
    kind = "ReLuLayer"
        => /\ (op.name = "forward" /\ ShapeOk(op.arg))
                 => /\ ret = Maximum0(op.arg)
                    /\ LayerForward(Self, ret, FALSE).ret = ret
           /\ (op.name = "backward" /\ IsArray(keptin) /\ keptin = lastin
                 /\ op.arg.shape = keptin.shape)
                 => ret = MaskedBy(op.arg, keptin)

C9_Step ==
    /\ (Called("forward") \/ Called("backward"))
          => (weights' = weights /\ biases' = biases)
    /\ (Called("update_parameters") /\ kind = "ReLuLayer")
          => (state' = state /\ ret' = None)

\* C9: forward and backward leave weights and biases as they were, and
\* update_parameters on a ReLuLayer changes nothing.
C9_ParametersChangeOnlyInUpdate == [][C9_Step]_vars

\* C9 happens: a layer with parameters has run forward and backward, and
\* holds a gradient that an update would apply.
C9_Witness ==
    /\ kind \in {"ConvLayer", "FCLayer", "BiasLayer"}
    /\ op.name = "backward" /\ ~(ret \in Errors)
    /\ IsArray(lastin)
    /\ IsArray(gradient)
    /\ \E k \in 1..Len(gradient.data) : gradient.data[k] # Num(0)

C10_Step ==
    kind \in {"ReLuLayer", "BiasLayer"}
        => /\ (Called("forward") /\ ~op'.flag) => state' = state
           /\ (ncalls' = ncalls + 1)
                 => acts' = IF op'.name = "forward" /\ op'.flag /\ ~(ret' \in Errors)
                            THEN ret' ELSE acts
           /\ (/\ Called("backward") /\ kind = "ReLuLayer"
               /\ IsArray(keptin) /\ IsArray(lastin) /\ keptin # lastin
               /\ op'.arg.shape = keptin.shape)
                 => ret' = MaskedBy(op'.arg, keptin)

\* C10: on a ReLuLayer or BiasLayer a forward call with keepacts false
\* changes nothing, so acts is the output of the most recent forward call
\* with keepacts true; and after forward(X1, true), forward(X2, false),
\* a ReLuLayer's backward(G) returns G masked by X1 > 0.
C10_ActsAreTheLastKept == [][C10_Step]_vars

====
